---- MODULE Spec2Model ----
(***************************************************************************)
(* A model of the runtime shim of mlua (src/src/ffi/shim/shim.c): the      *)
(* callback trampolines lua_call_rust and lua_call_mlua_hook_proc, the     *)
(* error classifier error_traceback, and the dispatch shims                *)
(* meta_index_impl and bind_call_impl, running on one Lua value stack.     *)
(*                                                                         *)
(* A Lua value is a tuple of strings whose first element is its type tag:  *)
(* <<"nil">>, <<"userdata", "slot">>, <<"string", "a", "b">>, ...          *)
(* The value stack of the running C function is the sequence `stack`,      *)
(* index 1 at the bottom, as the Lua C API counts it.                      *)
(***************************************************************************)
EXTENDS Integers, Sequences, FiniteSets, TLC

VARIABLES
  op,         \* the entry point that is running, or "idle"
  pc,         \* the position inside that entry point
  stack,      \* the value stack of the running function (its frame)
  caller,     \* the caller's stack below the function and its arguments
  avail,      \* extra stack slots the runtime can still grant
  mem,        \* allocations the runtime's allocator will still satisfy
  upv,        \* the upvalues of the running closure
  tables,     \* the contents of the tables the upvalues refer to
  slotData,   \* the bytes of the userdata allocated by the running function
  ret,        \* the value returned by the host function / the C function
  outcome,    \* "none" while running, then "returned" or "raised"
  errv,       \* the error payload, when outcome = "raised"
  log,        \* the foreign-runtime and host operations executed, in order
  entry,      \* the inputs of the running call, kept for the properties
  MLUA_WRAPPED_ERROR_KEY,   \* "NULL" or the registered key
  MLUA_WRAPPED_PANIC_KEY,   \* "NULL" or the registered key
  esc         \* glue.c: the locals and the memory of the running escape call

vars == <<op, pc, stack, caller, avail, mem, upv, tables, slotData, ret,
          outcome, errv, log, entry, MLUA_WRAPPED_ERROR_KEY,
          MLUA_WRAPPED_PANIC_KEY, esc>>

(***************************************************************************)
(* Bounds of the model.                                                    *)
(***************************************************************************)
MaxArgs == 3
MaxAvail == 14
MaxMem == 2
MaxRet == 2
MaxBinds == 2
MaxBase == 1
MaxSlots == 4
MaxLen == 3
MaxIn == 2
MaxSz == 3

(***************************************************************************)
(* Values.                                                                 *)
(***************************************************************************)
Nil == <<"nil">>
LuaType(v) == v[1]
Arg(i) == <<"number", "arg", CASE i = 1 -> "1" [] i = 2 -> "2" [] i = 3 -> "3"
                              [] i = 4 -> "4" [] OTHER -> "n">>
Args(k) == [i \in 1..k |-> Arg(i)]
Res(f, i) == <<"number", "result", f, CASE i = 1 -> "1" [] i = 2 -> "2"
                                        [] i = 3 -> "3" [] OTHER -> "n">>
Results(f, r) == [i \in 1..r |-> Res(f, i)]
Below(b) == [i \in 1..b |-> <<"number", "below">>]
Slot == <<"userdata", "slot">>
Uninit == <<"uninitialized">>
NoEntry == [k |-> 0, avail |-> 0, payload |-> Nil, key |-> Nil, stack0 |-> <<>>,
            below |-> <<>>]

Event(e, n, v, a) == [ev |-> e, n |-> n, v |-> v, args |-> a]
Logged(e) == \E i \in 1..Len(log) : log[i].ev = e
CountOf(e) == Cardinality({i \in 1..Len(log) : log[i].ev = e})
FirstOf(e) == CHOOSE i \in 1..Len(log) : log[i].ev = e /\ \A j \in 1..(i-1) : log[j].ev # e
LastOf(e) == CHOOSE i \in 1..Len(log) : log[i].ev = e /\ \A j \in (i+1)..Len(log) : log[j].ev # e
Range(q) == {q[i] : i \in 1..Len(q)}
Max(x, y) == IF x > y THEN x ELSE y

(***************************************************************************)
(* The Lua C API on a stack, as the reference manual defines it.           *)
(***************************************************************************)
Top(s) == s[Len(s)]
Push(s, v) == Append(s, v)
Pop(s, n) == SubSeq(s, 1, Len(s) - n)
AbsIndex(s, idx) == IF idx > 0 THEN idx ELSE Len(s) + idx + 1
Reverse(s, from, to) ==
  [i \in 1..Len(s) |-> IF i >= from /\ i <= to THEN s[from + to - i] ELSE s[i]]
\* lua_rotate(L, idx, n): the elements between idx and the top are rotated n
\* positions in the direction of the top (n > 0) or of the bottom (n < 0).
Lua_rotate(s, idx, n) ==
  LET p == AbsIndex(s, idx)
      t == Len(s)
      m == IF n >= 0 THEN t - n ELSE p - n - 1
  IN  Reverse(Reverse(Reverse(s, p, m), m + 1, t), p, t)
Lua_insert(s, idx) == Lua_rotate(s, idx, 1)
Lua_remove(s, idx) == Pop(Lua_rotate(s, idx, -1), 1)
Lua_replace(s, idx) == Pop([s EXCEPT ![AbsIndex(s, idx)] = Top(s)], 1)
Lua_settop(s, n) == [i \in 1..n |-> IF i <= Len(s) THEN s[i] ELSE Nil]
\* lua_checkstack(L, n): whether n extra slots can be secured.
Lua_checkstack(a, n) == n <= a
TopN(s, n) == SubSeq(s, Len(s) - n + 1, Len(s))

StackOverflow == <<"string", "stack overflow">>
OutOfMemory == <<"string", "not enough memory">>

(***************************************************************************)
(* How a function ends: by returning n values to its caller (the top n of  *)
(* its frame replace the function and its arguments), or by raising.       *)
(***************************************************************************)
Raise(e) ==
  /\ outcome' = "raised"
  /\ errv' = e
  /\ pc' = "done"

Return(n, s) ==
  /\ outcome' = "returned"
  /\ ret' = n
  /\ caller' = caller \o TopN(s, n)
  /\ pc' = "done"

Running(o, p) == op = o /\ pc = p /\ outcome = "none"

(***************************************************************************)
(* The host side of the trampolines.  The host callback is not part of the *)
(* shim: it receives the frame with the Failure Slot at index 1 and its    *)
(* arguments above it, and returns the number of values it produced on top *)
(* of the frame, or -1 after writing the failure into the slot, which it   *)
(* leaves as the only value of the frame for lua_error to raise.           *)
(***************************************************************************)
WrappedErrorData == <<"WrappedError", "e">>
WrappedPanicData == <<"WrappedPanic", "p">>
FailureWrites ==
  { <<w>> : w \in {WrappedErrorData, WrappedPanicData} } \cup
  { <<WrappedErrorData, WrappedPanicData>>, <<WrappedPanicData, WrappedErrorData>> }

HostSuccess(s, a) ==
  { [ret |-> r, stack |-> SubSeq(s, 1, kept) \o Results("host", r), writes |-> <<>>] :
      r \in 0..MaxRet, kept \in {j \in 0..Len(s) : j > 0 \/ Len(s) = 0} }

HostFailure(s, a) ==
  { [ret |-> -1, stack |-> Lua_settop(s, 1), writes |-> w] : w \in FailureWrites }

HostOutcomes(s, a) ==
  { o \in HostSuccess(s, a) \cup HostFailure(s, a) : Len(o.stack) - Len(s) <= a }

WriteEvents(w) == [i \in 1..Len(w) |-> Event("write", i, w[i], <<>>)]

\* The host function runs: it is entered with the frame s, and leaves o.
HostCall(name, o) ==
  /\ log' = (Append(log, Event("host", Len(stack), <<"function", name>>, stack))
               \o WriteEvents(o.writes))
             \o <<Event("host_return", o.ret, <<"function", name>>,
                        IF o.ret >= 0 THEN TopN(o.stack, o.ret) ELSE <<>>)>>
  /\ stack' = o.stack
  /\ avail' = avail - (Len(o.stack) - Len(stack))
  /\ slotData' = IF o.writes = <<>> THEN slotData ELSE o.writes[Len(o.writes)]
  /\ ret' = o.ret

(***************************************************************************)
(* lua_call_rust                                                           *)
(***************************************************************************)
\* The capacity the specification's formula asks for.
ExtraStack_Formula(nargs) == Max(0, 2 - nargs) + 1

\* shim.c 54-57
ExtraStack(nargs) == IF nargs < 2 THEN 2 - nargs ELSE 1

\* The runtime calls the closure with k arguments.
CallRust_Begin(k, a, m, b) ==
  /\ op = "idle"
  /\ op' = "lua_call_rust"
  /\ pc' = "checkstack"
  /\ stack' = Args(k)
  /\ caller' = Below(b)
  /\ avail' = a
  /\ mem' = m
  /\ upv' = << <<"lightuserdata", "rust_callback">> >>
  /\ entry' = [NoEntry EXCEPT !.k = k, !.avail = a, !.below = Below(b)]
  /\ UNCHANGED <<tables, slotData, ret, outcome, errv, log,
                 MLUA_WRAPPED_ERROR_KEY, MLUA_WRAPPED_PANIC_KEY, esc>>

\* shim.c 50-60: nargs, extra_stack, luaL_checkstack
CallRust_CheckStack ==
  /\ Running("lua_call_rust", "checkstack")
  /\ LET nargs == Len(stack)
         extra_stack == ExtraStack(nargs)
     IN  /\ log' = Append(log, Event("checkstack", extra_stack, Nil, <<>>))
         /\ IF Lua_checkstack(avail, extra_stack)
              THEN /\ pc' = "newuserdata"
                   /\ UNCHANGED <<outcome, errv>>
              ELSE Raise(StackOverflow)
  /\ UNCHANGED <<op, stack, caller, avail, mem, upv, tables, slotData, ret, entry,
                 MLUA_WRAPPED_ERROR_KEY, MLUA_WRAPPED_PANIC_KEY, esc>>

\* shim.c 64: lua_newuserdata (may raise a memory error)
CallRust_NewUserdata ==
  /\ Running("lua_call_rust", "newuserdata")
  /\ IF mem > 0
       THEN /\ stack' = Push(stack, Slot)
            /\ avail' = avail - 1
            /\ mem' = mem - 1
            /\ slotData' = Uninit
            /\ log' = Append(log, Event("newuserdata", Len(stack) + 1, Slot, <<>>))
            /\ pc' = "rotate"
            /\ UNCHANGED <<outcome, errv>>
       ELSE /\ Raise(OutOfMemory)
            /\ UNCHANGED <<stack, avail, mem, slotData, log>>
  /\ UNCHANGED <<op, caller, upv, tables, ret, entry,
                 MLUA_WRAPPED_ERROR_KEY, MLUA_WRAPPED_PANIC_KEY, esc>>

\* The slot is left where lua_newuserdata pushed it.
CallRust_NoRotate ==
  /\ Running("lua_call_rust", "rotate")
  /\ stack' = stack
  /\ log' = Append(log, Event("rotate", 1, Nil, <<>>))
  /\ pc' = "callback"
  /\ UNCHANGED <<op, caller, avail, mem, upv, tables, slotData, ret, outcome, errv,
                 entry, MLUA_WRAPPED_ERROR_KEY, MLUA_WRAPPED_PANIC_KEY, esc>>

\* shim.c 65: lua_rotate(L, 1, 1)
CallRust_Rotate ==
  /\ Running("lua_call_rust", "rotate")
  /\ stack' = Lua_rotate(stack, 1, 1)
  /\ log' = Append(log, Event("rotate", 1, Nil, <<>>))
  /\ pc' = "callback"
  /\ UNCHANGED <<op, caller, avail, mem, upv, tables, slotData, ret, outcome, errv,
                 entry, MLUA_WRAPPED_ERROR_KEY, MLUA_WRAPPED_PANIC_KEY, esc>>

\* shim.c 67-69: rust_callback(L)
CallRust_Callback ==
  /\ Running("lua_call_rust", "callback")
  /\ \E o \in HostOutcomes(stack, avail) : HostCall(upv[1][2], o)
  /\ pc' = "finish"
  /\ UNCHANGED <<op, caller, mem, upv, tables, outcome, errv, entry,
                 MLUA_WRAPPED_ERROR_KEY, MLUA_WRAPPED_PANIC_KEY, esc>>

\* The whole frame is returned instead of the callback's count.
CallRust_FinishWholeFrame ==
  /\ Running("lua_call_rust", "finish")
  /\ IF ret = -1
       THEN /\ Raise(Top(stack))
            /\ UNCHANGED <<ret, caller>>
       ELSE /\ Return(Len(stack), stack)
            /\ UNCHANGED errv
  /\ UNCHANGED <<op, stack, avail, mem, upv, tables, slotData, log, entry,
                 MLUA_WRAPPED_ERROR_KEY, MLUA_WRAPPED_PANIC_KEY, esc>>

\* shim.c 70-74: lua_error raises the value on top of the stack
CallRust_Finish ==
  /\ Running("lua_call_rust", "finish")
  /\ IF ret = -1
       THEN /\ Raise(Top(stack))
            /\ UNCHANGED <<ret, caller>>
       ELSE /\ Return(ret, stack)
            /\ UNCHANGED errv
  /\ UNCHANGED <<op, stack, avail, mem, upv, tables, slotData, log, entry,
                 MLUA_WRAPPED_ERROR_KEY, MLUA_WRAPPED_PANIC_KEY, esc>>

(***************************************************************************)
(* lua_call_mlua_hook_proc                                                 *)
(***************************************************************************)
\* The runtime calls the hook on a frame that holds k values.
Hook_Begin(k, a, m) ==
  /\ op = "idle"
  /\ op' = "lua_call_mlua_hook_proc"
  /\ pc' = "checkstack"
  /\ stack' = Args(k)
  /\ avail' = a
  /\ mem' = m
  /\ entry' = [NoEntry EXCEPT !.k = k, !.avail = a]
  /\ UNCHANGED <<caller, upv, tables, slotData, ret, outcome, errv, log,
                 MLUA_WRAPPED_ERROR_KEY, MLUA_WRAPPED_PANIC_KEY, esc>>

\* The result of the capacity check is ignored.
Hook_CheckStackIgnored ==
  /\ Running("lua_call_mlua_hook_proc", "checkstack")
  /\ log' = Append(log, Event("checkstack", 2, Nil, <<>>))
  /\ pc' = "newuserdata"
  /\ UNCHANGED <<op, stack, caller, avail, mem, upv, tables, slotData, ret, entry,
                 outcome, errv, MLUA_WRAPPED_ERROR_KEY, MLUA_WRAPPED_PANIC_KEY, esc>>

\* shim.c 78
Hook_CheckStack ==
  /\ Running("lua_call_mlua_hook_proc", "checkstack")
  /\ log' = Append(log, Event("checkstack", 2, Nil, <<>>))
  /\ IF Lua_checkstack(avail, 2)
       THEN /\ pc' = "newuserdata"
            /\ UNCHANGED <<outcome, errv>>
       ELSE Raise(StackOverflow)
  /\ UNCHANGED <<op, stack, caller, avail, mem, upv, tables, slotData, ret, entry,
                 MLUA_WRAPPED_ERROR_KEY, MLUA_WRAPPED_PANIC_KEY, esc>>

\* shim.c 79
Hook_NewUserdata ==
  /\ Running("lua_call_mlua_hook_proc", "newuserdata")
  /\ IF mem > 0
       THEN /\ stack' = Push(stack, Slot)
            /\ avail' = avail - 1
            /\ mem' = mem - 1
            /\ slotData' = Uninit
            /\ log' = Append(log, Event("newuserdata", Len(stack) + 1, Slot, <<>>))
            /\ pc' = "rotate"
            /\ UNCHANGED <<outcome, errv>>
       ELSE /\ Raise(OutOfMemory)
            /\ UNCHANGED <<stack, avail, mem, slotData, log>>
  /\ UNCHANGED <<op, caller, upv, tables, ret, entry,
                 MLUA_WRAPPED_ERROR_KEY, MLUA_WRAPPED_PANIC_KEY, esc>>

\* shim.c 80
Hook_Rotate ==
  /\ Running("lua_call_mlua_hook_proc", "rotate")
  /\ stack' = Lua_rotate(stack, 1, 1)
  /\ log' = Append(log, Event("rotate", 1, Nil, <<>>))
  /\ pc' = "callback"
  /\ UNCHANGED <<op, caller, avail, mem, upv, tables, slotData, ret, outcome, errv,
                 entry, MLUA_WRAPPED_ERROR_KEY, MLUA_WRAPPED_PANIC_KEY, esc>>

\* shim.c 81: mlua_hook_proc(L, ar)
Hook_Proc ==
  /\ Running("lua_call_mlua_hook_proc", "callback")
  /\ \E o \in HostOutcomes(stack, avail) : HostCall("mlua_hook_proc", o)
  /\ pc' = "finish"
  /\ UNCHANGED <<op, caller, mem, upv, tables, outcome, errv, entry,
                 MLUA_WRAPPED_ERROR_KEY, MLUA_WRAPPED_PANIC_KEY, esc>>

\* shim.c 82-85: the hook returns nothing
Hook_Finish ==
  /\ Running("lua_call_mlua_hook_proc", "finish")
  /\ IF ret = -1
       THEN /\ Raise(Top(stack))
            /\ UNCHANGED <<ret, caller>>
       ELSE /\ Return(0, stack)
            /\ UNCHANGED errv
  /\ UNCHANGED <<op, stack, avail, mem, upv, tables, slotData, log, entry,
                 MLUA_WRAPPED_ERROR_KEY, MLUA_WRAPPED_PANIC_KEY, esc>>

(***************************************************************************)
(* The wrapped-struct identity keys.  Each key is NULL until the host      *)
(* registers it, once, together with the metatable the registry holds      *)
(* under it.                                                               *)
(***************************************************************************)
ErrorKey == "MLUA_WRAPPED_ERROR_KEY"
PanicKey == "MLUA_WRAPPED_PANIC_KEY"
WrappedError == <<"userdata", "WrappedError">>
WrappedPanic == <<"userdata", "WrappedPanic">>
OtherUserdata == <<"userdata", "other">>
PlainUserdata == <<"userdata", "plain">>
ErrorString == <<"string", "msg">>
ErrorTable == <<"table", "err">>
ErrorUd == <<"userdata", "error_ud">>

RegisterErrorKey ==
  /\ op = "idle"
  /\ MLUA_WRAPPED_ERROR_KEY = "NULL"
  /\ MLUA_WRAPPED_ERROR_KEY' = ErrorKey
  /\ UNCHANGED <<op, pc, stack, caller, avail, mem, upv, tables, slotData, ret,
                 outcome, errv, log, entry, MLUA_WRAPPED_PANIC_KEY, esc>>

RegisterPanicKey ==
  /\ op = "idle"
  /\ MLUA_WRAPPED_PANIC_KEY = "NULL"
  /\ MLUA_WRAPPED_PANIC_KEY' = PanicKey
  /\ UNCHANGED <<op, pc, stack, caller, avail, mem, upv, tables, slotData, ret,
                 outcome, errv, log, entry, MLUA_WRAPPED_ERROR_KEY, esc>>

\* lua_touserdata: the block address of a userdata, NULL for any other value
Lua_touserdata(v) == IF LuaType(v) = "userdata" THEN v[2] ELSE "NULL"
\* lua_getmetatable: the metatable of the value, <<>> when it has none
Lua_getmetatable(v) ==
  CASE v = WrappedError -> <<"table", "mt", ErrorKey>>
    [] v = WrappedPanic -> <<"table", "mt", PanicKey>>
    [] v = OtherUserdata -> <<"table", "mt", "other">>
    [] OTHER -> <<>>
\* lua_rawgetp(L, LUA_REGISTRYINDEX, key)
Lua_rawgetp_registry(key) == <<"table", "mt", key>>

\* shim.c 380-394; the result and the stack it leaves
is_wrapped_struct(s, index, key) ==
  IF key = "NULL"
    THEN [res |-> 0, stack |-> s]
    ELSE LET v == s[AbsIndex(s, index)]
             ud == Lua_touserdata(v)
         IN  IF ud = "NULL" \/ Lua_getmetatable(v) = <<>>
               THEN [res |-> 0, stack |-> s]
               ELSE LET s1 == Push(s, Lua_getmetatable(v))
                        s2 == Push(s1, Lua_rawgetp_registry(key))
                        res == IF s2[AbsIndex(s2, -1)] = s2[AbsIndex(s2, -2)] THEN 1 ELSE 0
                    IN  [res |-> res, stack |-> Pop(s2, 2)]

\* luaL_tolstring: the printable form of a value
LuaL_tolstring(v) == IF LuaType(v) = "string" THEN v ELSE <<"string">> \o v
\* luaL_traceback(L, L1, msg, 0): msg, a newline and the traceback; msg may be NULL
LuaL_traceback(msg) ==
  (IF msg = <<>> THEN <<"string">> ELSE msg \o <<"\n">>) \o <<"stack traceback:">>
IsTraceback(v) ==
  /\ Len(v) >= 2
  /\ v[1] = "string"
  /\ v[Len(v)] = "stack traceback:"

(***************************************************************************)
(* error_traceback                                                         *)
(***************************************************************************)
\* shim.c 406
LUA_TRACEBACK_STACK == 11

ErrorPayloads ==
  {ErrorString, ErrorTable, OtherUserdata, PlainUserdata}
    \cup (IF MLUA_WRAPPED_ERROR_KEY # "NULL" THEN {WrappedError} ELSE {})
    \cup (IF MLUA_WRAPPED_PANIC_KEY # "NULL" THEN {WrappedPanic} ELSE {})

\* error_traceback is called with the error payload on top of b other values.
ET_Begin(payload, b, a, m) ==
  /\ op = "idle"
  /\ payload \in ErrorPayloads
  /\ op' = "error_traceback"
  /\ pc' = "checkstack"
  /\ stack' = Below(b) \o <<payload>>
  /\ avail' = a
  /\ mem' = m
  /\ entry' = [NoEntry EXCEPT !.avail = a, !.payload = payload,
                              !.stack0 = Below(b) \o <<payload>>]
  /\ UNCHANGED <<caller, upv, tables, slotData, ret, outcome, errv, log,
                 MLUA_WRAPPED_ERROR_KEY, MLUA_WRAPPED_PANIC_KEY, esc>>

\* shim.c 408-412
ET_CheckStack ==
  /\ Running("error_traceback", "checkstack")
  /\ log' = Append(log, Event("checkstack", 2, Nil, <<>>))
  /\ IF ~Lua_checkstack(avail, 2)
       THEN Return(1, stack)
       ELSE /\ pc' = "classify"
            /\ UNCHANGED <<outcome, ret, caller>>
  /\ UNCHANGED <<op, stack, avail, mem, upv, tables, slotData, errv, entry,
                 MLUA_WRAPPED_ERROR_KEY, MLUA_WRAPPED_PANIC_KEY, esc>>

\* shim.c 414
ET_Classify ==
  /\ Running("error_traceback", "classify")
  /\ LET r == is_wrapped_struct(stack, -1, MLUA_WRAPPED_ERROR_KEY)
     IN  /\ stack' = r.stack
         /\ pc' = IF r.res # 0 THEN "wrapped_error" ELSE "native"
  /\ UNCHANGED <<op, caller, avail, mem, upv, tables, slotData, ret, outcome, errv,
                 log, entry, MLUA_WRAPPED_ERROR_KEY, MLUA_WRAPPED_PANIC_KEY, esc>>

\* The host's finalizer: it reads the error at error_idx and, when
\* has_traceback is set, the traceback on top of the stack, writes the
\* augmented error into error_ud and leaves error_ud on top.
wrapped_error_traceback(s, error_idx, error_ud, has_traceback) ==
  [stack |-> SubSeq(s, 1, error_idx) \o <<error_ud>>,
   data |-> (<<"CallbackError">> \o s[error_idx])
              \o (IF has_traceback = 1 THEN Top(s) ELSE <<"no traceback">>)]

\* The headroom is checked before error_ud takes its slot.
HasTraceback_Early(a) == IF Lua_checkstack(a, LUA_TRACEBACK_STACK + 2) THEN 1 ELSE 0

\* shim.c 419: the free slots are those left after error_ud was pushed
HasTraceback(a) == IF Lua_checkstack(a - 1, LUA_TRACEBACK_STACK) THEN 1 ELSE 0

\* shim.c 415-424; lua_newuserdata and luaL_traceback allocate and may raise
ET_WrappedError ==
  /\ Running("error_traceback", "wrapped_error")
  /\ LET error_idx == AbsIndex(stack, -1)
         s1 == Push(stack, ErrorUd)
         has_traceback == HasTraceback(avail)
         s2 == IF has_traceback = 1 THEN Push(s1, LuaL_traceback(<<>>)) ELSE s1
         f == wrapped_error_traceback(s2, error_idx, ErrorUd, has_traceback)
         l1 == Append(log, Event("newuserdata", error_idx + 1, ErrorUd, <<>>))
         l2 == Append(l1, Event("checkstack", LUA_TRACEBACK_STACK, Nil, <<>>))
         l3 == IF has_traceback = 1
                 THEN Append(l2, Event("traceback", 0, LuaL_traceback(<<>>), <<>>))
                 ELSE l2
     IN  IF mem = 0
           THEN /\ Raise(OutOfMemory)
                /\ log' = l1
                /\ UNCHANGED <<stack, avail, mem, slotData, ret, caller>>
           ELSE IF has_traceback = 1 /\ mem = 1
                  THEN /\ Raise(OutOfMemory)
                       /\ log' = l3
                       /\ stack' = s1
                       /\ avail' = avail - 1
                       /\ mem' = 0
                       /\ slotData' = Uninit
                       /\ UNCHANGED <<ret, caller>>
                  ELSE /\ log' = Append(l3, Event("finalizer", has_traceback,
                                                  s2[error_idx], s2))
                       /\ stack' = f.stack
                       /\ slotData' = f.data
                       /\ avail' = avail - 1
                       /\ mem' = mem - 1 - has_traceback
                       /\ Return(1, f.stack)
                       /\ UNCHANGED errv
  /\ UNCHANGED <<op, upv, tables, entry,
                 MLUA_WRAPPED_ERROR_KEY, MLUA_WRAPPED_PANIC_KEY, esc>>

\* The panic key is not tested against NULL.
NativeTraceback_NoNullTest(s, a) ==
  /\ is_wrapped_struct(s, -1, MLUA_WRAPPED_PANIC_KEY).res = 0
  /\ Lua_checkstack(a, LUA_TRACEBACK_STACK)

\* shim.c 427-429: whether the payload gets a traceback
NativeTraceback(s, a) ==
  /\ MLUA_WRAPPED_PANIC_KEY # "NULL"
  /\ is_wrapped_struct(s, -1, MLUA_WRAPPED_PANIC_KEY).res = 0
  /\ Lua_checkstack(a, LUA_TRACEBACK_STACK)

\* The traceback is built without the payload's printable form.
NativeDecorate_NoMessage(s) ==
  LET s1 == Push(s, LuaL_tolstring(s[AbsIndex(s, -1)]))
      s2 == Push(s1, LuaL_traceback(<<>>))
  IN  Lua_remove(s2, -2)

\* shim.c 430-432: luaL_tolstring, luaL_traceback, lua_remove(-2)
NativeDecorate(s) ==
  LET s1 == Push(s, LuaL_tolstring(s[AbsIndex(s, -1)]))
      s2 == Push(s1, LuaL_traceback(Top(s1)))
  IN  Lua_remove(s2, -2)

\* shim.c 427-435
ET_Native ==
  /\ Running("error_traceback", "native")
  /\ IF NativeTraceback(stack, avail)
       THEN IF mem >= 2
              THEN /\ stack' = NativeDecorate(stack)
                   /\ avail' = avail - 1
                   /\ mem' = mem - 2
                   /\ log' = Append(Append(log,
                               Event("tolstring", 0, LuaL_tolstring(Top(stack)), <<>>)),
                               Event("traceback", 0, Top(NativeDecorate(stack)), <<>>))
                   /\ Return(1, NativeDecorate(stack))
                   /\ UNCHANGED errv
              ELSE /\ Raise(OutOfMemory)
                   /\ log' = Append(log, Event(IF mem = 0 THEN "tolstring" ELSE "traceback",
                                               0, Nil, <<>>))
                   /\ mem' = 0
                   /\ UNCHANGED <<stack, avail, ret, caller>>
       ELSE /\ stack' = is_wrapped_struct(stack, -1, MLUA_WRAPPED_PANIC_KEY).stack
            /\ Return(1, stack')
            /\ UNCHANGED <<avail, mem, log, errv>>
  /\ UNCHANGED <<op, upv, tables, slotData, entry,
                 MLUA_WRAPPED_ERROR_KEY, MLUA_WRAPPED_PANIC_KEY, esc>>

(***************************************************************************)
(* Calls into Lua values.  A called function is outside the shim: it is    *)
(* entered with its arguments, and either returns some results or raises.  *)
(***************************************************************************)
CalleeError == <<"string", "error raised by the callee">>
Outcome(out, s, n, e, l) == [out |-> out, stack |-> s, n |-> n, err |-> e, log |-> l]
\* the results of a call, adjusted to nresults (LUA_MULTRET is -1)
Adjust(results, nresults) ==
  IF nresults = -1
    THEN results
    ELSE [i \in 1..nresults |-> IF i <= Len(results) THEN results[i] ELSE Nil]
CallEvent(s, nargs, nresults) ==
  Event("call", nresults, s[Len(s) - nargs], TopN(s, nargs))
\* lua_call(L, nargs, nresults): the function and its arguments are replaced
\* by the results
Lua_call(s, nargs, nresults, results) ==
  SubSeq(s, 1, Len(s) - nargs - 1) \o Adjust(results, nresults)
\* what the called function f returns: r values of its own
CalleeResults(f, r) == [i \in 1..r |-> Res(f[Len(f)], i)]

\* lua_call followed by `return n` (n = -1: return lua_gettop)
CallThenReturn(s, nargs, nresults, n, l, r, raises) ==
  LET f == s[Len(s) - nargs]
      l1 == Append(l, CallEvent(s, nargs, nresults))
      s1 == Lua_call(s, nargs, nresults, CalleeResults(f, r))
  IN  IF raises
        THEN Outcome("raised", s, 0, CalleeError, l1)
        ELSE Outcome("returned", s1, IF n = -1 THEN Len(s1) ELSE n, Nil,
                     Append(l1, Event("call_return", r, f, CalleeResults(f, r))))

\* lua_rawget / lua_gettable on a table without metamethods
Lua_rawget(tb, t, key) == tb[t[2]][key]
Lua_gettable(tb, t, key) == tb[t[2]][key]

(***************************************************************************)
(* meta_index_impl                                                         *)
(***************************************************************************)
Self == <<"userdata", "self">>
KeyX == <<"string", "x">>
KeyTrue == <<"boolean", "true">>
Keys == {KeyX, KeyTrue}
Getter(k) == <<"function", "getter", k[2]>>
Method(k) == <<"function", "method", k[2]>>
BaseField(k) == <<"number", "base", k[2]>>
BaseFunction == <<"function", "__index">>
BaseNumber == <<"number", "42">>
GettersTable == <<"table", "field_getters">>
MethodsTable == <<"table", "methods">>
BaseTable == <<"table", "__index">>
\* the contents of the three lookup tables, given the keys each one has
GettersOf(G) == [k \in Keys |-> IF k \in G THEN Getter(k) ELSE Nil]
MethodsOf(M) == [k \in Keys |-> IF k \in M THEN Method(k) ELSE Nil]
BaseOf(B) == [k \in Keys |-> IF k \in B THEN BaseField(k) ELSE Nil]

\* lua_tostring: the text of a string or a number, NULL for any other value
Lua_tostring(v) == IF LuaType(v) \in {"string", "number"} THEN v[2] ELSE "NULL"
\* the %s conversion of luaL_error prints a NULL string as (null)
FormatS(str) == IF str = "NULL" THEN "(null)" ELSE str
\* luaL_error(state, "attempt to <what> an unknown field '%s'", field)
UnknownField(what, field) ==
  <<"string", "attempt to ", what, " an unknown field '", FormatS(field), "'">>

\* shim.c 275-280: the getter is on top of self and key
IndexGetter(s, l, r, raises) ==
  LET s1 == Lua_insert(s, -3)
      s2 == Pop(s1, 1)
  IN  CallThenReturn(s2, 1, 1, 1, l, r, raises)

\* shim.c 288-290: the method is on top of self and key
IndexMethod(s, l) ==
  LET s1 == Lua_insert(s, -3)
  IN  Outcome("returned", Pop(s1, 2), 1, Nil, l)

\* shim.c 295-315: the captured __index
IndexFallback(s, up, tb, l, r, raises) ==
  LET s1 == Push(s, up[1])
      key == s[AbsIndex(s, -1)]
  IN  CASE LuaType(Top(s1)) = "nil" ->
             Outcome("raised", Pop(s1, 1), 0, UnknownField("get", Lua_tostring(key)), l)
        [] LuaType(Top(s1)) = "table" ->
             LET s2 == Lua_insert(s1, -2)
                 t == s2[AbsIndex(s2, -2)]
                 s3 == Push(Pop(s2, 1), Lua_gettable(tb, t, Top(s2)))
             IN  Outcome("returned", s3, 1, Nil,
                         Append(l, Event("gettable", 0, t, <<Top(s2)>>)))
        [] LuaType(Top(s1)) = "function" ->
             CallThenReturn(Lua_insert(s1, -3), 2, 1, 1, l, r, raises)
        [] OTHER -> Outcome("returned", s1, 1, Nil, l)

\* shim.c 285-293, then the fallback
IndexMethods(s, up, tb, l, r, raises) ==
  IF up[3] # Nil
    THEN LET s1 == Push(s, s[AbsIndex(s, -1)])
             v == Lua_rawget(tb, up[3], Top(s1))
             s2 == Push(Pop(s1, 1), v)
             l1 == Append(l, Event("rawget", 3, up[3], <<Top(s1)>>))
         IN  IF v # Nil
               THEN IndexMethod(s2, l1)
               ELSE IndexFallback(Pop(s2, 1), up, tb, l1, r, raises)
    ELSE IndexFallback(s, up, tb, l, r, raises)

\* The method table is consulted before the getter table.
meta_index_impl_MethodsFirst(s, up, tb, a, r, raises) ==
  LET l0 == <<Event("checkstack", 2, Nil, <<>>)>>
  IN  IF ~Lua_checkstack(a, 2)
        THEN Outcome("raised", s, 0, StackOverflow, l0)
        ELSE IndexMethods(s, up, tb, l0, r, raises)

\* shim.c 269-316
meta_index_impl(s, up, tb, a, r, raises) ==
  LET l0 == <<Event("checkstack", 2, Nil, <<>>)>>
  IN  IF ~Lua_checkstack(a, 2)
        THEN Outcome("raised", s, 0, StackOverflow, l0)
        ELSE IF up[2] # Nil
               THEN LET s1 == Push(s, s[AbsIndex(s, -1)])
                        v == Lua_rawget(tb, up[2], Top(s1))
                        s2 == Push(Pop(s1, 1), v)
                        l1 == Append(l0, Event("rawget", 2, up[2], <<Top(s1)>>))
                    IN  IF v # Nil
                          THEN IndexGetter(s2, l1, r, raises)
                          ELSE IndexMethods(Pop(s2, 1), up, tb, l1, r, raises)
               ELSE IndexMethods(s, up, tb, l0, r, raises)

BaseValues == {Nil, BaseTable, BaseFunction, BaseNumber}

\* The runtime calls the __index closure for self[key].
MetaIndex_Begin(key, base, G, M, B, a) ==
  /\ op = "idle"
  /\ base \in BaseValues
  /\ base # BaseTable => B = {}
  /\ op' = "meta_index_impl"
  /\ pc' = "body"
  /\ stack' = <<Self, key>>
  /\ upv' = <<base,
              IF G = {} THEN Nil ELSE GettersTable,
              IF M = {} THEN Nil ELSE MethodsTable>>
  /\ tables' = [field_getters |-> GettersOf(G),
                methods |-> MethodsOf(M),
                __index |-> BaseOf(B)]
  /\ avail' = a
  /\ entry' = [NoEntry EXCEPT !.avail = a, !.key = key, !.stack0 = <<Self, key>>]
  /\ UNCHANGED <<caller, mem, slotData, ret, outcome, errv, log,
                 MLUA_WRAPPED_ERROR_KEY, MLUA_WRAPPED_PANIC_KEY, esc>>

\* The body of a dispatch shim ran to its end.
Finish(o) ==
  /\ stack' = o.stack
  /\ log' = o.log
  /\ avail' = avail - (Len(o.stack) - Len(stack))
  /\ IF o.out = "raised"
       THEN /\ Raise(o.err)
            /\ UNCHANGED <<ret, caller>>
       ELSE /\ Return(o.n, o.stack)
            /\ UNCHANGED errv

MetaIndex_Run(r, raises) ==
  /\ Running("meta_index_impl", "body")
  /\ Finish(meta_index_impl(stack, upv, tables, avail, r, raises))
  /\ UNCHANGED <<op, mem, upv, tables, slotData, entry,
                 MLUA_WRAPPED_ERROR_KEY, MLUA_WRAPPED_PANIC_KEY, esc>>

(***************************************************************************)
(* bind_call_impl                                                          *)
(***************************************************************************)
Digit(i) == CASE i = 0 -> "0" [] i = 1 -> "1" [] i = 2 -> "2" [] i = 3 -> "3"
              [] i = 4 -> "4" [] i = 5 -> "5" [] i = 6 -> "6" [] i = 7 -> "7"
              [] i = 8 -> "8" [] i = 9 -> "9" [] OTHER -> "n"
Integer(i) == <<"number", Digit(i)>>
\* lua_tointeger: the integer a number value holds
Lua_tointeger(v) ==
  IF LuaType(v) # "number" THEN 0
  ELSE CASE v[2] = "1" -> 1 [] v[2] = "2" -> 2 [] v[2] = "3" -> 3 [] v[2] = "4" -> 4
         [] v[2] = "5" -> 5 [] v[2] = "6" -> 6 [] v[2] = "7" -> 7 [] v[2] = "8" -> 8
         [] v[2] = "9" -> 9 [] OTHER -> 0
BoundFunction == <<"function", "bound">>
BoundValue(i) == <<"string", "bound value", Digit(i)>>
BoundValues(b) == [i \in 1..b |-> BoundValue(i)]

\* The bound values are read one upvalue too low.
RECURSIVE CopyBinds_OffByOne(_, _, _, _)
CopyBinds_OffByOne(s, up, i, nbinds) ==
  IF i < nbinds
    THEN CopyBinds_OffByOne(Lua_replace(Push(s, up[i + 2]), i + 2), up, i + 1, nbinds)
    ELSE s

\* shim.c 369-372
RECURSIVE CopyBinds(_, _, _, _)
CopyBinds(s, up, i, nbinds) ==
  IF i < nbinds
    THEN CopyBinds(Lua_replace(Push(s, up[i + 3]), i + 2), up, i + 1, nbinds)
    ELSE s

\* shim.c 358-376
bind_call_impl(s, up, a, r, raises) ==
  LET nargs == Len(s)
      nbinds == Lua_tointeger(up[2])
      l0 == <<Event("checkstack", nbinds + 2, Nil, <<>>)>>
  IN  IF ~Lua_checkstack(a, nbinds + 2)
        THEN Outcome("raised", s, 0, StackOverflow, l0)
        ELSE LET s1 == Lua_settop(s, nargs + nbinds + 1)
                 s2 == Lua_rotate(s1, -(nargs + nbinds + 1), nbinds + 1)
                 s3 == Lua_replace(Push(s2, up[1]), 1)
                 s4 == CopyBinds(s3, up, 0, nbinds)
             IN  CallThenReturn(s4, nargs + nbinds, -1, -1, l0, r, raises)

\* The runtime calls a closure made with b bound values, with c arguments.
BindCall_Begin(b, c, a) ==
  /\ op = "idle"
  /\ op' = "bind_call_impl"
  /\ pc' = "body"
  /\ stack' = Args(c)
  /\ upv' = <<BoundFunction, Integer(b)>> \o BoundValues(b)
  /\ avail' = a
  /\ entry' = [NoEntry EXCEPT !.avail = a, !.k = c, !.stack0 = Args(c)]
  /\ UNCHANGED <<caller, mem, tables, slotData, ret, outcome, errv, log,
                 MLUA_WRAPPED_ERROR_KEY, MLUA_WRAPPED_PANIC_KEY, esc>>

BindCall_Run(r, raises) ==
  /\ Running("bind_call_impl", "body")
  /\ Finish(bind_call_impl(stack, upv, avail, r, raises))
  /\ UNCHANGED <<op, mem, upv, tables, slotData, entry,
                 MLUA_WRAPPED_ERROR_KEY, MLUA_WRAPPED_PANIC_KEY, esc>>

(***************************************************************************)
(* meta_newindex_impl                                                      *)
(***************************************************************************)
Value == <<"number", "value">>
OldValue == <<"number", "old value">>
Setter(k) == <<"function", "setter", k[2]>>
NewIndexFunction == <<"function", "__newindex">>
NewIndexNumber == <<"number", "42">>
SettersTable == <<"table", "field_setters">>
NewIndexTable == <<"table", "__newindex">>
SettersOf(S) == [k \in Keys |-> IF k \in S THEN Setter(k) ELSE Nil]
NewIndexOf(B) == [k \in Keys |-> IF k \in B THEN OldValue ELSE Nil]
NewIndexValues == {Nil, NewIndexTable, NewIndexFunction, NewIndexNumber}

\* lua_settable on a table without metamethods: t[key] = value
Lua_settable(tb, t, key, value) == [tb EXCEPT ![t[2]][key] = value]

\* how the body of meta_newindex_impl ends, and the tables it leaves
Effect(o, tb) == [o |-> o, tables |-> tb]

\* shim.c 327-330: the setter is on top of self, key and value
NewIndexSetter(s, tb, l, r, raises) ==
  LET s1 == Lua_remove(s, -3)
      s2 == Lua_insert(s1, -3)
  IN  Effect(CallThenReturn(s2, 2, 0, 0, l, r, raises), tb)

\* shim.c 334-354: the captured __newindex
NewIndexFallback(s, up, tb, l, r, raises) ==
  LET s1 == Push(s, up[1])
  IN  CASE LuaType(Top(s1)) = "nil" ->
             LET s2 == Pop(s1, 1)
                 field == Lua_tostring(s2[AbsIndex(s2, -2)])
             IN  Effect(Outcome("raised", s2, 0, UnknownField("set", field), l), tb)
        [] LuaType(Top(s1)) = "table" ->
             LET s2 == Lua_insert(s1, -3)
                 t == s2[AbsIndex(s2, -3)]
                 key == s2[AbsIndex(s2, -2)]
                 value == s2[AbsIndex(s2, -1)]
             IN  Effect(Outcome("returned", Pop(s2, 2), 0, Nil,
                                Append(l, Event("settable", 0, t, <<key, value>>))),
                        Lua_settable(tb, t, key, value))
        [] LuaType(Top(s1)) = "function" ->
             Effect(CallThenReturn(Lua_insert(s1, -4), 3, 0, 0, l, r, raises), tb)
        [] OTHER -> Effect(Outcome("returned", s1, 0, Nil, l), tb)

\* shim.c 320-355
meta_newindex_impl(s, up, tb, a, r, raises) ==
  LET l0 == <<Event("checkstack", 2, Nil, <<>>)>>
  IN  IF ~Lua_checkstack(a, 2)
        THEN Effect(Outcome("raised", s, 0, StackOverflow, l0), tb)
        ELSE LET s1 == Push(s, s[AbsIndex(s, -2)])
                 v == Lua_rawget(tb, up[2], Top(s1))
                 s2 == Push(Pop(s1, 1), v)
                 l1 == Append(l0, Event("rawget", 2, up[2], <<Top(s1)>>))
             IN  IF v # Nil
                   THEN NewIndexSetter(s2, tb, l1, r, raises)
                   ELSE NewIndexFallback(Pop(s2, 1), up, tb, l1, r, raises)

\* The runtime calls the __newindex closure for self[key] = value.
MetaNewIndex_Begin(key, base, S, B, a) ==
  /\ op = "idle"
  /\ base \in NewIndexValues
  /\ base # NewIndexTable => B = {}
  /\ op' = "meta_newindex_impl"
  /\ pc' = "body"
  /\ stack' = <<Self, key, Value>>
  /\ upv' = <<base, SettersTable>>
  /\ tables' = [field_setters |-> SettersOf(S), __newindex |-> NewIndexOf(B)]
  /\ avail' = a
  /\ entry' = [NoEntry EXCEPT !.avail = a, !.key = key,
                              !.stack0 = <<Self, key, Value>>]
  /\ UNCHANGED <<caller, mem, slotData, ret, outcome, errv, log,
                 MLUA_WRAPPED_ERROR_KEY, MLUA_WRAPPED_PANIC_KEY, esc>>

MetaNewIndex_Run(r, raises) ==
  /\ Running("meta_newindex_impl", "body")
  /\ LET e == meta_newindex_impl(stack, upv, tables, avail, r, raises)
     IN  /\ Finish(e.o)
         /\ tables' = e.tables
  /\ UNCHANGED <<op, mem, upv, slotData, entry,
                 MLUA_WRAPPED_ERROR_KEY, MLUA_WRAPPED_PANIC_KEY, esc>>

(***************************************************************************)
(* lua_rawinsert_s and lua_rawremove_s                                     *)
(***************************************************************************)
\* the integer keys a table of the model can hold
MaxIdx == MaxLen + 2
Elem(j) == <<"string", "elem", Digit(j)>>
NewElem == <<"string", "new">>
SeqTable == <<"table", "seq">>
\* a table holding the sequence Elem(1) .. Elem(n)
SeqOf(n) == [j \in 0..MaxIdx |-> IF j >= 1 /\ j <= n THEN Elem(j) ELSE Nil]

\* lua_rawlen: a border of the table (the length, when it holds a sequence)
Lua_rawlen(tb, t) ==
  CHOOSE j \in 0..MaxIdx :
    /\ j = 0 \/ tb[t[2]][j] # Nil
    /\ j = MaxIdx \/ tb[t[2]][j + 1] = Nil
    /\ \A k \in 1..j : tb[t[2]][k] # Nil
Lua_rawgeti(tb, t, i) == IF i \in DOMAIN tb[t[2]] THEN tb[t[2]][i] ELSE Nil
Lua_rawseti(tb, t, i, v) == [tb EXCEPT ![t[2]][i] = v]
\* lua_tointeger, lua_pop
Lua_popinteger(s) == [n |-> Lua_tointeger(Top(s)), stack |-> Pop(s, 1)]

\* the tables and the log, as a loop carries them
Carry(tb, l) == [tables |-> tb, log |-> l]

\* The elements are shifted from the index upwards.
RECURSIVE InsertShift_Upward(_, _, _, _, _)
InsertShift_Upward(tb, t, l, i, index) ==
  IF i >= index
    THEN InsertShift_Upward(
           Lua_rawseti(tb, t, index + 1, Lua_rawgeti(tb, t, index)), t,
           Append(Append(l, Event("rawgeti", index, t, <<>>)),
                  Event("rawseti", index + 1, t, <<Lua_rawgeti(tb, t, index)>>)),
           i, index + 1)
    ELSE Carry(tb, l)

\* shim.c 228-232: for (i = size; i >= index; i--) table[i+1] = table[i]
RECURSIVE InsertShift(_, _, _, _, _)
InsertShift(tb, t, l, i, index) ==
  IF i >= index
    THEN InsertShift(
           Lua_rawseti(tb, t, i + 1, Lua_rawgeti(tb, t, i)), t,
           Append(Append(l, Event("rawgeti", i, t, <<>>)),
                  Event("rawseti", i + 1, t, <<Lua_rawgeti(tb, t, i)>>)),
           i - 1, index)
    ELSE Carry(tb, l)

\* shim.c 224-236; growing the table allocates and may raise
lua_rawinsert_s(s, tb, m) ==
  LET p == Lua_popinteger(s)
      index == p.n
      s1 == p.stack
      t == s1[AbsIndex(s1, -2)]
      size == Lua_rawlen(tb, t)
      c == InsertShift(tb, t, <<>>, size, index)
      value == s1[AbsIndex(s1, -1)]
  IN  IF m = 0
        THEN Effect(Outcome("raised", s1, 0, OutOfMemory, <<>>), tb)
        ELSE Effect(Outcome("returned", Pop(s1, 1), 0, Nil,
                            Append(c.log, Event("rawseti", index, t, <<value>>))),
                    Lua_rawseti(c.tables, t, index, value))

\* shim.c 242-245: for (i = index; i < size; i++) table[i] = table[i+1]
RECURSIVE RemoveShift(_, _, _, _, _)
RemoveShift(tb, t, l, i, size) ==
  IF i < size
    THEN RemoveShift(
           Lua_rawseti(tb, t, i, Lua_rawgeti(tb, t, i + 1)), t,
           Append(Append(l, Event("rawgeti", i + 1, t, <<>>)),
                  Event("rawseti", i, t, <<Lua_rawgeti(tb, t, i + 1)>>)),
           i + 1, size)
    ELSE Carry(tb, l)

\* The last position is cleared only when the index is inside the sequence.
RemoveClear_InRange(c, t, index, size) ==
  IF index <= size
    THEN Carry(Lua_rawseti(c.tables, t, size, Nil),
               Append(c.log, Event("rawseti", size, t, <<Nil>>)))
    ELSE c

\* shim.c 246-247: lua_pushnil, lua_rawseti(L, -2, size)
RemoveClear(c, t, index, size) ==
  Carry(Lua_rawseti(c.tables, t, size, Nil),
        Append(c.log, Event("rawseti", size, t, <<Nil>>)))

\* shim.c 238-250
lua_rawremove_s(s, tb) ==
  LET p == Lua_popinteger(s)
      index == p.n
      s1 == p.stack
      t == s1[AbsIndex(s1, -1)]
      size == Lua_rawlen(tb, t)
      c == RemoveClear(RemoveShift(tb, t, <<>>, index, size), t, index, size)
  IN  Effect(Outcome("returned", s1, 0, Nil, c.log), c.tables)

\* lua_rawinsert_s is called on a table of n elements, the value and the index.
RawInsert_Begin(n, index, m) ==
  /\ op = "idle"
  /\ op' = "lua_rawinsert_s"
  /\ pc' = "body"
  /\ stack' = <<SeqTable, NewElem, Integer(index)>>
  /\ tables' = [seq |-> SeqOf(n)]
  /\ mem' = m
  /\ entry' = [NoEntry EXCEPT !.k = n, !.key = Integer(index),
                              !.stack0 = <<SeqTable, NewElem, Integer(index)>>]
  /\ UNCHANGED <<caller, avail, upv, slotData, ret, outcome, errv, log,
                 MLUA_WRAPPED_ERROR_KEY, MLUA_WRAPPED_PANIC_KEY, esc>>

RawInsert_Run ==
  /\ Running("lua_rawinsert_s", "body")
  /\ LET e == lua_rawinsert_s(stack, tables, mem)
     IN  /\ Finish(e.o)
         /\ tables' = e.tables
         /\ mem' = IF e.o.out = "raised" THEN mem ELSE mem - 1
  /\ UNCHANGED <<op, upv, slotData, entry,
                 MLUA_WRAPPED_ERROR_KEY, MLUA_WRAPPED_PANIC_KEY, esc>>

\* lua_rawremove_s is called on a table of n elements and the index.
RawRemove_Begin(n, index) ==
  /\ op = "idle"
  /\ op' = "lua_rawremove_s"
  /\ pc' = "body"
  /\ stack' = <<SeqTable, Integer(index)>>
  /\ tables' = [seq |-> SeqOf(n)]
  /\ entry' = [NoEntry EXCEPT !.k = n, !.key = Integer(index),
                              !.stack0 = <<SeqTable, Integer(index)>>]
  /\ UNCHANGED <<caller, avail, mem, upv, slotData, ret, outcome, errv, log,
                 MLUA_WRAPPED_ERROR_KEY, MLUA_WRAPPED_PANIC_KEY, esc>>

RawRemove_Run ==
  /\ Running("lua_rawremove_s", "body")
  /\ LET e == lua_rawremove_s(stack, tables)
     IN  /\ Finish(e.o)
         /\ tables' = e.tables
  /\ UNCHANGED <<op, mem, upv, slotData, entry,
                 MLUA_WRAPPED_ERROR_KEY, MLUA_WRAPPED_PANIC_KEY, esc>>

(***************************************************************************)
(* glue.c: try_write, escape and write_str_item.  The memory `out` points  *)
(* into is counted in bytes from the start of the buffer: the buffer is    *)
(* the bytes 0 .. szout-1, and the bytes from szout on lie beyond it.      *)
(***************************************************************************)
Backslash == "\\"
Chars == {"a", Backslash}
NUL == "NUL"
Garbage == "?"
\* the strings the model escapes
Inputs == UNION {[1..n -> Chars] : n \in 0..MaxIn}
\* the bytes of memory the model follows: an escaped string and its NUL
MemTop == 2 * MaxIn
NoEscape == [caller |-> "none", in |-> <<>>, ip |-> 1, szout |-> 0, out |-> 0,
             written |-> 0, null |-> FALSE, bytes |-> [b \in 0..MemTop |-> Garbage],
             writes |-> <<>>, result |-> -1, printed |-> <<>>]

\* *(*str)++ = c: the byte is stored where out points, and out moves on
Store(e, c) ==
  [e EXCEPT !.bytes[e.out] = c, !.out = e.out + 1, !.writes = Append(e.writes, e.out)]

\* glue.c 94-95: for (; n; n--, *written++) *(*str)++ = c;
\* *written++ moves the local pointer `written` and leaves the count it
\* points to as it was.
RECURSIVE WriteLoop(_, _, _)
WriteLoop(e, c, n) == IF n = 0 THEN e ELSE WriteLoop(Store(e, c), c, n - 1)

\* glue.c 90-97: whether it wrote, and the state it leaves
try_write(e, c, n) ==
  IF e.szout - e.written < n
    THEN [ok |-> 0, e |-> e]
    ELSE [ok |-> 1, e |-> WriteLoop(e, c, n)]

\* a store through a null pointer, or past the end of the buffer
BadStore(e0, e1) ==
  /\ Len(e1.writes) > Len(e0.writes)
  /\ \/ e0.null
     \/ \E j \in (Len(e0.writes) + 1)..Len(e1.writes) : e1.writes[j] >= e0.szout

\* What a step that stored bytes leads to: the next position p, or, after a
\* store outside the buffer, possibly the end of the process.
AfterStore(e1, p, crash) ==
  /\ crash => BadStore(esc, e1)
  /\ (esc.null /\ Len(e1.writes) > Len(esc.writes)) => crash
  /\ esc' = IF crash THEN [e1 EXCEPT !.bytes = esc.bytes] ELSE e1
  /\ IF crash
       THEN /\ outcome' = "crashed"
            /\ pc' = "done"
       ELSE /\ pc' = p
            /\ UNCHANGED outcome

\* escape(in, out, szout) is called on a buffer of szout bytes.
Escape_Begin(in, szout) ==
  /\ op = "idle"
  /\ op' = "escape"
  /\ pc' = "loop"
  /\ esc' = [NoEscape EXCEPT !.caller = "direct", !.in = in, !.szout = szout]
  /\ UNCHANGED <<stack, caller, avail, mem, upv, tables, slotData, ret, outcome,
                 errv, log, entry, MLUA_WRAPPED_ERROR_KEY, MLUA_WRAPPED_PANIC_KEY>>

\* glue.c 135-140: write_str_item calls escape on a buffer of 2 * len + 1
\* bytes, which malloc may fail to provide.
WriteStrItem_Begin(value, m) ==
  /\ op = "idle"
  /\ op' = "escape"
  /\ pc' = "loop"
  /\ mem' = m
  /\ esc' = [NoEscape EXCEPT !.caller = "write_str_item", !.in = value,
                             !.szout = Len(value) * 2 + 1, !.null = (m = 0)]
  /\ UNCHANGED <<stack, caller, avail, upv, tables, slotData, ret, outcome,
                 errv, log, entry, MLUA_WRAPPED_ERROR_KEY, MLUA_WRAPPED_PANIC_KEY>>

\* glue.c 105-116: one turn of the loop
Escape_Loop(crash) ==
  /\ Running("escape", "loop")
  /\ LET cur == IF esc.ip <= Len(esc.in) THEN esc.in[esc.ip] ELSE NUL
         e1 == [esc EXCEPT !.ip = esc.ip + 1]
         r == try_write(e1, cur, IF cur = Backslash THEN 2 ELSE 1)
     IN  IF cur = NUL \/ r.ok = 0
           THEN AfterStore(e1, "finalize", crash)
           ELSE AfterStore(r.e, "loop", crash)
  /\ UNCHANGED <<op, stack, caller, avail, mem, upv, tables, slotData, ret,
                 errv, log, entry, MLUA_WRAPPED_ERROR_KEY, MLUA_WRAPPED_PANIC_KEY>>

\* glue.c 118-123: the terminating null, and the count returned
Escape_Finalize(crash) ==
  /\ Running("escape", "finalize")
  /\ LET e1 == IF esc.written + 1 <= esc.szout
                 THEN [Store(esc, NUL) EXCEPT !.written = esc.written + 1]
                 ELSE esc
         e2 == [e1 EXCEPT !.result = e1.written]
     IN  AfterStore(e2, "return", crash)
  /\ UNCHANGED <<op, stack, caller, avail, mem, upv, tables, slotData, ret,
                 errv, log, entry, MLUA_WRAPPED_ERROR_KEY, MLUA_WRAPPED_PANIC_KEY>>

\* escape returns its count to a direct caller.
Escape_Return ==
  /\ Running("escape", "return")
  /\ esc.caller = "direct"
  /\ outcome' = "returned"
  /\ ret' = esc.result
  /\ pc' = "done"
  /\ UNCHANGED <<op, stack, caller, avail, mem, upv, tables, slotData, errv, log,
                 entry, MLUA_WRAPPED_ERROR_KEY, MLUA_WRAPPED_PANIC_KEY, esc>>

\* the bytes of a C string: those before the first null
RECURSIVE CString(_, _)
CString(bytes, from) ==
  IF from > MemTop \/ bytes[from] = NUL
    THEN <<>>
    ELSE <<bytes[from]>> \o CString(bytes, from + 1)

\* glue.c 140-143: write_str_item drops the count, prints buf as a string and
\* frees it; what fprintf returns depends on the name, which is left out.
WriteStrItem_Print ==
  /\ Running("escape", "return")
  /\ esc.caller = "write_str_item"
  /\ esc' = [esc EXCEPT !.printed = CString(esc.bytes, 0)]
  /\ outcome' = "returned"
  /\ pc' = "done"
  /\ UNCHANGED <<op, stack, caller, avail, mem, upv, tables, slotData, ret, errv,
                 log, entry, MLUA_WRAPPED_ERROR_KEY, MLUA_WRAPPED_PANIC_KEY>>

(***************************************************************************)
(* The specification.                                                      *)
(***************************************************************************)
Init ==
  /\ op = "idle"
  /\ pc = "idle"
  /\ stack = <<>>
  /\ caller = <<>>
  /\ avail = 0
  /\ mem = 0
  /\ upv = <<>>
  /\ tables = <<>>
  /\ slotData = Uninit
  /\ ret = 0
  /\ outcome = "none"
  /\ errv = Nil
  /\ log = <<>>
  /\ entry = NoEntry
  /\ MLUA_WRAPPED_ERROR_KEY = "NULL"
  /\ MLUA_WRAPPED_PANIC_KEY = "NULL"
  /\ esc = NoEscape

\* The call is over; the runtime goes on to the next one.
Finished ==
  /\ op # "idle"
  /\ outcome # "none"
  /\ op' = "idle"
  /\ pc' = "idle"
  /\ stack' = <<>>
  /\ caller' = <<>>
  /\ avail' = 0
  /\ mem' = 0
  /\ upv' = <<>>
  /\ tables' = <<>>
  /\ slotData' = Uninit
  /\ ret' = 0
  /\ outcome' = "none"
  /\ errv' = Nil
  /\ log' = <<>>
  /\ entry' = NoEntry
  /\ esc' = NoEscape
  /\ UNCHANGED <<MLUA_WRAPPED_ERROR_KEY, MLUA_WRAPPED_PANIC_KEY>>

Next ==
  \/ \E k \in 0..MaxArgs, a \in 0..MaxSlots, m \in 0..MaxMem, b \in 0..MaxBase :
       CallRust_Begin(k, a, m, b)
  \/ CallRust_CheckStack
  \/ CallRust_NewUserdata
  \/ CallRust_Rotate
  \/ CallRust_Callback
  \/ CallRust_Finish
  \/ \E k \in 0..MaxArgs, a \in 0..MaxSlots, m \in 0..MaxMem : Hook_Begin(k, a, m)
  \/ Hook_CheckStack
  \/ Hook_NewUserdata
  \/ Hook_Rotate
  \/ Hook_Proc
  \/ Hook_Finish
  \/ RegisterErrorKey
  \/ RegisterPanicKey
  \/ \E payload \in ErrorPayloads, b \in 0..MaxBase, a \in 0..MaxAvail, m \in 0..MaxMem :
       ET_Begin(payload, b, a, m)
  \/ ET_CheckStack
  \/ ET_Classify
  \/ ET_WrappedError
  \/ ET_Native
  \/ \E key \in Keys, base \in BaseValues, G \in SUBSET Keys, M \in SUBSET Keys,
        B \in SUBSET Keys, a \in 0..MaxSlots :
       MetaIndex_Begin(key, base, G, M, B, a)
  \/ \E r \in 0..MaxRet, raises \in BOOLEAN : MetaIndex_Run(r, raises)
  \/ \E b \in 0..MaxBinds, c \in 0..MaxArgs, a \in 0..MaxSlots : BindCall_Begin(b, c, a)
  \/ \E r \in 0..MaxRet, raises \in BOOLEAN : BindCall_Run(r, raises)
  \/ \E key \in Keys, base \in NewIndexValues, S \in SUBSET Keys, B \in SUBSET Keys,
        a \in 0..MaxSlots :
       MetaNewIndex_Begin(key, base, S, B, a)
  \/ \E r \in 0..MaxRet, raises \in BOOLEAN : MetaNewIndex_Run(r, raises)
  \/ \E n \in 0..MaxLen, index \in 1..MaxIdx, m \in 0..MaxMem :
       RawInsert_Begin(n, index, m)
  \/ RawInsert_Run
  \/ \E n \in 0..MaxLen, index \in 1..MaxIdx : RawRemove_Begin(n, index)
  \/ RawRemove_Run
  \/ \E in \in Inputs, szout \in 1..MaxSz : Escape_Begin(in, szout)
  \/ \E value \in Inputs, m \in 0..1 : WriteStrItem_Begin(value, m)
  \/ \E crash \in BOOLEAN : Escape_Loop(crash)
  \/ \E crash \in BOOLEAN : Escape_Finalize(crash)
  \/ Escape_Return
  \/ WriteStrItem_Print
  \/ Finished

Spec == Init /\ [][Next]_vars


(***************************************************************************)
(* Properties of the trampolines.                                          *)
(***************************************************************************)
HostReturned == Logged("host_return")
HostReturn == log[FirstOf("host_return")]
HostEntry == log[FirstOf("host")]

\* C1: when the host callback of lua_call_rust returns a count r >= 0, the
\* trampoline returns exactly r, and the caller's stack is then its original
\* stack below the arguments followed by the r values the callback left on
\* top: neither the Failure Slot nor an argument remains.
C1_ResultsForwarded ==
  (op = "lua_call_rust" /\ pc = "done" /\ HostReturned /\ HostReturn.n >= 0) =>
    /\ outcome = "returned"
    /\ ret = HostReturn.n
    /\ Len(HostReturn.args) = HostReturn.n
    /\ caller = entry.below \o HostReturn.args
    /\ Slot \notin Range(caller)
    /\ \A i \in 1..entry.k : Arg(i) \notin Range(caller)

C1_Witness ==
  /\ op = "lua_call_rust"
  /\ outcome = "returned"
  /\ entry.k = 2
  /\ entry.below # <<>>
  /\ ret = 2
  /\ Len(stack) > 3

\* C2: when the host callback of lua_call_rust returns -1, the trampoline
\* does not return: it raises an error whose payload is the Failure Slot it
\* allocated and rotated to index 1, holding what the callback wrote last.
C2_FailureSlotRaised ==
  (op = "lua_call_rust" /\ pc = "done" /\ HostReturned /\ HostReturn.n = -1) =>
    /\ outcome = "raised"
    /\ errv = Slot
    /\ HostEntry.args[1] = Slot
    /\ Logged("write")
    /\ slotData = log[LastOf("write")].v

C2_Witness ==
  /\ op = "lua_call_rust"
  /\ outcome = "raised"
  /\ HostReturned
  /\ entry.k = 2
  /\ CountOf("write") = 2
  /\ slotData = WrappedPanicData
  /\ errv = Slot

Trampoline == op \in {"lua_call_rust", "lua_call_mlua_hook_proc"}

\* C6: in both trampolines the capacity check comes first, then the Failure
\* Slot is allocated and rotated to index 1, then the host function is
\* entered; when the check fails the slot is never allocated and the host
\* function never entered, and the host function is only ever entered with
\* the slot at index 1 below its arguments.
C6_CheckAllocateInvoke ==
  Trampoline =>
    /\ \A e \in {"checkstack", "newuserdata", "rotate", "host"} : CountOf(e) <= 1
    /\ Logged("newuserdata") =>
         /\ Logged("checkstack")
         /\ FirstOf("checkstack") < FirstOf("newuserdata")
         /\ log[FirstOf("checkstack")].n <= entry.avail
    /\ Logged("rotate") =>
         /\ Logged("newuserdata")
         /\ FirstOf("newuserdata") < FirstOf("rotate")
    /\ Logged("host") =>
         /\ Logged("rotate")
         /\ FirstOf("rotate") < FirstOf("host")
         /\ HostEntry.args = <<Slot>> \o Args(entry.k)
    /\ (Logged("checkstack") /\ log[FirstOf("checkstack")].n > entry.avail) =>
         /\ ~Logged("newuserdata")
         /\ ~Logged("host")
         /\ outcome = "raised"

C6_Witness ==
  /\ op = "lua_call_mlua_hook_proc"
  /\ Logged("host")
  /\ entry.k = 2
  /\ HostEntry.args = <<Slot, Arg(1), Arg(2)>>

\* C7 as the specification words it: the trampoline requests
\* max(0, 2 - arg_count) + 1 extra slots (3, 2, 1 for 0, 1, 2 or more).
C7_Original ==
  (op = "lua_call_rust" /\ Logged("checkstack")) =>
    log[FirstOf("checkstack")].n = Max(0, 2 - entry.k) + 1

\* C7: the trampoline requests max(1, 2 - arg_count) extra slots before it
\* allocates the Failure Slot: 2 for no argument, 1 for one or more.
C7_ExtraStack ==
  (op = "lua_call_rust" /\ Logged("checkstack")) =>
    /\ log[FirstOf("checkstack")].n = Max(1, 2 - entry.k)
    /\ entry.k = 0 => log[FirstOf("checkstack")].n = 2
    /\ entry.k >= 1 => log[FirstOf("checkstack")].n = 1
    /\ Logged("newuserdata") => FirstOf("checkstack") < FirstOf("newuserdata")

C7_Witness ==
  /\ op = "lua_call_rust"
  /\ Logged("newuserdata")
  /\ entry.k = 0
  /\ log[FirstOf("checkstack")].n = 2

(***************************************************************************)
(* Properties of error_traceback.                                          *)
(***************************************************************************)
Classifying == op = "error_traceback"
Result == Top(caller)

PassThrough ==
  /\ Classifying
  /\ \/ entry.payload = WrappedPanic
     \/ MLUA_WRAPPED_PANIC_KEY = "NULL" /\ entry.payload # WrappedError

\* C3: for a WrappedPanic, or for any payload but a WrappedError while no
\* panic key is registered, error_traceback returns with the stack as it was
\* at entry, whatever the free stack: the finalizer is not called, no
\* traceback is built, and nothing that allocates or raises is executed.
C3_PanicUntouched ==
  PassThrough =>
    /\ stack = entry.stack0
    /\ \A e \in {"finalizer", "traceback", "tolstring", "newuserdata"} : ~Logged(e)
    /\ outcome # "raised"
    /\ pc = "done" => (outcome = "returned" /\ ret = 1 /\ Result = entry.payload)

C3_Witness ==
  /\ Classifying
  /\ entry.payload = WrappedPanic
  /\ entry.avail >= LUA_TRACEBACK_STACK + 2
  /\ mem >= 2
  /\ outcome = "returned"

C3_WitnessNoKey ==
  /\ Classifying
  /\ entry.payload = ErrorString
  /\ MLUA_WRAPPED_PANIC_KEY = "NULL"
  /\ entry.avail >= LUA_TRACEBACK_STACK + 2
  /\ outcome = "returned"

IsWrappedErrorCase == Classifying /\ entry.payload = WrappedError
FinalizerCall == log[FirstOf("finalizer")]

\* C4 as the specification words it: a WrappedError gets its traceback
\* whenever at least 13 extra slots were available, and none with fewer.
C4_Original ==
  (IsWrappedErrorCase /\ outcome = "returned") =>
    /\ entry.avail >= 13 => (Logged("finalizer") /\ FinalizerCall.n = 1)
    /\ entry.avail < 13 =>
         /\ ~Logged("traceback")
         /\ Logged("finalizer") => FinalizerCall.n = 0

\* C4: for a WrappedError, when error_traceback returns: with at least 12
\* extra slots at entry the finalizer was called once with has_traceback = 1,
\* the error at error_idx and a non-empty traceback on top of the stack; with
\* 2 to 11 it was called with has_traceback = 0 and no traceback was built;
\* with fewer than 2 it was not called and the error is returned untouched.
C4_WrappedErrorTraceback ==
  (IsWrappedErrorCase /\ outcome = "returned") =>
    /\ ret = 1
    /\ entry.avail >= 12 =>
         /\ CountOf("finalizer") = 1
         /\ FinalizerCall.n = 1
         /\ FinalizerCall.v = WrappedError
         /\ IsTraceback(Top(FinalizerCall.args))
         /\ FinalizerCall.args = entry.stack0 \o <<ErrorUd, LuaL_traceback(<<>>)>>
    /\ (entry.avail >= 2 /\ entry.avail < 12) =>
         /\ CountOf("finalizer") = 1
         /\ FinalizerCall.n = 0
         /\ FinalizerCall.v = WrappedError
         /\ FinalizerCall.args = entry.stack0 \o <<ErrorUd>>
         /\ ~Logged("traceback")
    /\ entry.avail < 2 =>
         /\ ~Logged("finalizer")
         /\ ~Logged("newuserdata")
         /\ stack = entry.stack0
         /\ Result = WrappedError

C4_Witness ==
  /\ IsWrappedErrorCase
  /\ outcome = "returned"
  /\ entry.avail = 12
  /\ Logged("finalizer")
  /\ FinalizerCall.n = 1

NativeCase ==
  /\ Classifying
  /\ MLUA_WRAPPED_PANIC_KEY # "NULL"
  /\ entry.payload \notin {WrappedError, WrappedPanic}

\* C5: for a native payload, with the panic key registered, error_traceback
\* returns one value: the payload's printable string followed by a traceback
\* when the headroom for the traceback (11 slots) can be secured, and the
\* original value otherwise; the finalizer is never called.
C5_NativeTraceback ==
  NativeCase =>
    /\ ~Logged("finalizer")
    /\ outcome = "returned" =>
         /\ ret = 1
         /\ entry.avail >= LUA_TRACEBACK_STACK =>
              /\ Result = LuaL_tolstring(entry.payload) \o <<"\n", "stack traceback:">>
              /\ stack = entry.stack0 \o <<Result>>
         /\ entry.avail < LUA_TRACEBACK_STACK =>
              /\ Result = entry.payload
              /\ stack = entry.stack0

C5_Witness ==
  /\ NativeCase
  /\ outcome = "returned"
  /\ entry.payload = ErrorTable
  /\ entry.avail = LUA_TRACEBACK_STACK
  /\ Result = <<"string", "table", "err", "\n", "stack traceback:">>

C5_WitnessNoHeadroom ==
  /\ NativeCase
  /\ outcome = "returned"
  /\ entry.avail = LUA_TRACEBACK_STACK - 1
  /\ Result = ErrorString


(***************************************************************************)
(* Properties of the dispatch shims.                                       *)
(***************************************************************************)
TheCall == log[FirstOf("call")]
CallReturn == log[FirstOf("call_return")]
Binding == op = "bind_call_impl"
NBinds == Len(upv) - 2

\* C8: a bound call made with b bound values and c arguments calls the base
\* function exactly once, with the b bound values in creation order followed
\* by the c arguments in call order, and returns all of its results and
\* nothing else.
C8_BoundCall ==
  Binding =>
    /\ CountOf("call") <= 1
    /\ Logged("call") =>
         /\ TheCall.v = BoundFunction
         /\ Len(TheCall.args) = NBinds + entry.k
         /\ TheCall.args = BoundValues(NBinds) \o Args(entry.k)
         /\ TheCall.n = -1
    /\ outcome = "returned" =>
         /\ CountOf("call") = 1
         /\ ret = CallReturn.n
         /\ caller = CallReturn.args
         /\ stack = CallReturn.args
    /\ (pc = "done" /\ entry.avail >= NBinds + 2) => CountOf("call") = 1

C8_Witness ==
  /\ Binding
  /\ outcome = "returned"
  /\ NBinds = 2
  /\ entry.k = 2
  /\ ret = 2
  /\ TheCall.args = <<BoundValue(1), BoundValue(2), Arg(1), Arg(2)>>

Indexing == op = "meta_index_impl"
HasGetter == Indexing /\ upv[2] # Nil /\ tables.field_getters[entry.key] # Nil
HasMethod == Indexing /\ upv[3] # Nil /\ tables.methods[entry.key] # Nil
Consulted(t) == \E i \in 1..Len(log) : log[i].ev \in {"rawget", "gettable"} /\ log[i].v = t
IndexRan == Indexing /\ pc = "done" /\ entry.avail >= 2
SingleResult == Adjust(CallReturn.args, 1)[1]

\* C9: an attribute read resolves the key through the getters, then the
\* methods, then the fallback: a getter registered for the key is called with
\* the object alone and its single result returned, without the methods or
\* the fallback being consulted, even when a method has the same key; a key
\* only the methods have yields the method itself, which is not called.
C9_GetterThenMethod ==
  /\ (IndexRan /\ HasGetter) =>
       /\ CountOf("call") = 1
       /\ TheCall.v = Getter(entry.key)
       /\ TheCall.args = <<Self>>
       /\ ~Consulted(MethodsTable)
       /\ ~Consulted(BaseTable)
       /\ outcome = "raised" => errv = CalleeError
       /\ outcome = "returned" =>
            /\ ret = 1
            /\ caller = <<SingleResult>>
            /\ stack = <<SingleResult>>
  /\ (IndexRan /\ ~HasGetter /\ HasMethod) =>
       /\ outcome = "returned"
       /\ ret = 1
       /\ caller = <<Method(entry.key)>>
       /\ ~Logged("call")
       /\ ~Consulted(BaseTable)

C9_Witness ==
  /\ IndexRan
  /\ HasGetter
  /\ HasMethod
  /\ outcome = "returned"
  /\ CallReturn.n = 2
  /\ caller = <<Res("x", 1)>>

C9_WitnessMethod ==
  /\ IndexRan
  /\ ~HasGetter
  /\ HasMethod
  /\ upv[2] # Nil
  /\ upv[1] = BaseFunction
  /\ caller = <<Method(KeyX)>>

Fallback == IndexRan /\ ~HasGetter /\ ~HasMethod

FallbackOutcome ==
  /\ (Fallback /\ upv[1] = BaseTable) =>
       /\ outcome = "returned"
       /\ caller = <<tables.__index[entry.key]>>
       /\ ~Logged("call")
       /\ CountOf("gettable") = 1
       /\ log[FirstOf("gettable")].v = BaseTable
       /\ log[FirstOf("gettable")].args = <<entry.key>>
  /\ (Fallback /\ upv[1] = BaseFunction) =>
       /\ CountOf("call") = 1
       /\ TheCall.v = BaseFunction
       /\ TheCall.args = <<Self, entry.key>>
       /\ outcome = "raised" => errv = CalleeError
       /\ outcome = "returned" => caller = <<SingleResult>>
  /\ (Fallback /\ outcome = "returned") =>
       /\ ret = 1
       /\ Len(caller) = 1

\* C10: when neither the getters nor the methods have the key, the captured
\* fallback decides: nil raises an "unknown field" error that names the key
\* and returns nothing; a table is indexed by the key; a function is called
\* once with (object, key) and its single result returned.  Whatever returns,
\* returns one value.
C10_Original ==
  /\ FallbackOutcome
  /\ (Fallback /\ upv[1] = Nil) =>
       /\ outcome = "raised"
       /\ caller = <<>>
       /\ errv = <<"string", "attempt to ", "get", " an unknown field '",
                   entry.key[2], "'">>

\* What the code does in the fallback: as above, but the message of the error
\* names the key only when it is a string or a number, and shows (null) in
\* its place for a key of any other type.
C10_Fallback ==
  /\ FallbackOutcome
  /\ (Fallback /\ upv[1] = Nil) =>
       /\ outcome = "raised"
       /\ caller = <<>>
       /\ ~Logged("call")
       /\ errv = <<"string", "attempt to ", "get", " an unknown field '",
                   IF LuaType(entry.key) \in {"string", "number"}
                     THEN entry.key[2] ELSE "(null)", "'">>

C10_Witness ==
  /\ Fallback
  /\ upv[1] = BaseFunction
  /\ upv[2] # Nil
  /\ upv[3] # Nil
  /\ outcome = "returned"
  /\ CallReturn.n = 0
  /\ caller = <<Nil>>

C10_WitnessTable ==
  /\ Fallback
  /\ upv[1] = BaseTable
  /\ caller = <<BaseField(KeyX)>>

C10_WitnessNil ==
  /\ Fallback
  /\ upv[1] = Nil
  /\ entry.key = KeyX
  /\ errv = <<"string", "attempt to ", "get", " an unknown field '", "x", "'">>

Assigning == op = "meta_newindex_impl"
HasSetter == Assigning /\ tables.field_setters[entry.key] # Nil
AssignRan == Assigning /\ pc = "done" /\ entry.avail >= 2
AssignFallback == AssignRan /\ ~HasSetter

AssignOutcome ==
  /\ (AssignRan /\ HasSetter) =>
       /\ CountOf("call") = 1
       /\ TheCall.v = Setter(entry.key)
       /\ TheCall.args = <<Self, Value>>
       /\ ~Logged("settable")
       /\ outcome = "raised" => errv = CalleeError
  /\ (AssignFallback /\ upv[1] = NewIndexTable) =>
       /\ outcome = "returned"
       /\ ~Logged("call")
       /\ CountOf("settable") = 1
       /\ log[FirstOf("settable")].v = NewIndexTable
       /\ log[FirstOf("settable")].args = <<entry.key, Value>>
       /\ tables.__newindex[entry.key] = Value
       /\ \A k \in Keys \ {entry.key} :
            tables.__newindex[k] \in {Nil, OldValue}
  /\ (AssignFallback /\ upv[1] = NewIndexFunction) =>
       /\ CountOf("call") = 1
       /\ TheCall.v = NewIndexFunction
       /\ TheCall.args = <<Self, entry.key, Value>>
       /\ outcome = "raised" => errv = CalleeError
  /\ (AssignRan /\ outcome = "returned") =>
       /\ ret = 0
       /\ caller = <<>>

\* C11: an attribute write calls the setter registered for the key once with
\* (object, value) without consulting the fallback; without a setter, a table
\* fallback gets fallback[key] = value, a function fallback is called once
\* with (object, key, value), and a nil fallback raises an "unknown field"
\* error that names the key.  Whatever returns, returns no value.
C11_Original ==
  /\ AssignOutcome
  /\ (AssignFallback /\ upv[1] = Nil) =>
       /\ outcome = "raised"
       /\ errv = <<"string", "attempt to ", "set", " an unknown field '",
                   entry.key[2], "'">>

\* What the code does for a nil fallback: the message of the error names the
\* key only when it is a string or a number, and shows (null) in its place
\* for a key of any other type.
NewIndex_Fallback ==
  /\ AssignOutcome
  /\ (AssignFallback /\ upv[1] = Nil) =>
       /\ outcome = "raised"
       /\ ~Logged("call")
       /\ ~Logged("settable")
       /\ errv = <<"string", "attempt to ", "set", " an unknown field '",
                   IF LuaType(entry.key) \in {"string", "number"}
                     THEN entry.key[2] ELSE "(null)", "'">>

NewIndex_WitnessSetter ==
  /\ AssignRan
  /\ HasSetter
  /\ upv[1] = NewIndexTable
  /\ outcome = "returned"
  /\ CallReturn.n = 2

NewIndex_WitnessTable ==
  /\ AssignFallback
  /\ upv[1] = NewIndexTable
  /\ entry.key = KeyTrue
  /\ tables.__newindex = [k \in Keys |-> IF k = KeyTrue THEN Value ELSE OldValue]

NewIndex_WitnessFunction ==
  /\ AssignFallback
  /\ upv[1] = NewIndexFunction
  /\ outcome = "returned"


(***************************************************************************)
(* Properties of the sequence helpers.                                     *)
(***************************************************************************)
Inserted == op = "lua_rawinsert_s" /\ outcome = "returned"
Removed == op = "lua_rawremove_s" /\ pc = "done"
SeqLen == entry.k
Index == Lua_tointeger(entry.key)
\* the table holds exactly a sequence of length n
IsSeq(t, n) == \A j \in 0..MaxIdx : (t[j] # Nil) <=> (j >= 1 /\ j <= n)

\* C12: on a sequence of length n, inserting at i in 1..n+1 gives the
\* sequence of length n+1 with the new value at i, the elements below i in
\* place and the former i..n one position up; removing at i in 1..n gives
\* the sequence of length n-1 without the element at i, the elements below i
\* in place and the former i+1..n one position down.  Both leave only the
\* table on the stack and return no value.
C12_InsertRemove ==
  /\ (Inserted /\ Index <= SeqLen + 1) =>
       /\ IsSeq(tables.seq, SeqLen + 1)
       /\ tables.seq[Index] = NewElem
       /\ \A j \in 1..(Index - 1) : tables.seq[j] = Elem(j)
       /\ \A j \in Index..SeqLen : tables.seq[j + 1] = Elem(j)
       /\ stack = <<SeqTable>>
       /\ ret = 0
       /\ caller = <<>>
  /\ (Removed /\ Index <= SeqLen) =>
       /\ outcome = "returned"
       /\ IsSeq(tables.seq, SeqLen - 1)
       /\ \A j \in 1..(Index - 1) : tables.seq[j] = Elem(j)
       /\ \A j \in (Index + 1)..SeqLen : tables.seq[j - 1] = Elem(j)
       /\ stack = <<SeqTable>>
       /\ ret = 0
       /\ caller = <<>>

C12_Witness ==
  /\ Inserted
  /\ SeqLen = 3
  /\ Index = 2
  /\ tables.seq[1] = Elem(1)
  /\ tables.seq[2] = NewElem
  /\ tables.seq[3] = Elem(2)
  /\ tables.seq[4] = Elem(3)

C12_WitnessRemove ==
  /\ Removed
  /\ SeqLen = 3
  /\ Index = 2
  /\ tables.seq[1] = Elem(1)
  /\ tables.seq[2] = Elem(3)
  /\ tables.seq[3] = Nil

\* C13: on a sequence of length n >= 1, removing at any index i >= 1 leaves a
\* sequence of length exactly n-1; when i > n no element is shifted, but
\* position n is still set to nil, so that the last element is removed.
C13_RemoveShortens ==
  (Removed /\ SeqLen >= 1 /\ Index >= 1) =>
    /\ outcome = "returned"
    /\ IsSeq(tables.seq, SeqLen - 1)
    /\ Lua_rawlen(tables, SeqTable) = SeqLen - 1
    /\ Index > SeqLen =>
         /\ ~Logged("rawgeti")
         /\ CountOf("rawseti") = 1
         /\ log[FirstOf("rawseti")].n = SeqLen
         /\ log[FirstOf("rawseti")].args = <<Nil>>
         /\ \A j \in 1..(SeqLen - 1) : tables.seq[j] = Elem(j)
         /\ tables.seq[SeqLen] = Nil

C13_Witness ==
  /\ Removed
  /\ SeqLen = 2
  /\ Index = 4
  /\ tables.seq[1] = Elem(1)
  /\ tables.seq[2] = Nil


(***************************************************************************)
(* Properties of escape.                                                   *)
(***************************************************************************)
Escaping == op = "escape"
Escaped == Escaping /\ esc.result >= 0
\* the bytes escape is to write for a string: each backslash twice, every
\* other character once
RECURSIVE EscapedForm(_)
EscapedForm(str) ==
  IF str = <<>>
    THEN <<>>
    ELSE (IF Head(str) = Backslash THEN <<Backslash, Backslash>> ELSE <<Head(str)>>)
           \o EscapedForm(Tail(str))

\* C14: for every string and every buffer of szout >= 1 bytes, every byte
\* escape writes lies within the first szout bytes of out, and the count
\* escape returns is the number of bytes it wrote.
C14_Original ==
  (Escaping /\ ~esc.null) =>
    /\ \A j \in 1..Len(esc.writes) : esc.writes[j] < esc.szout
    /\ Escaped => esc.result = Len(esc.writes)

\* What the code does: the count try_write is given is never advanced, so
\* that escape returns 1 whatever it wrote, and with szout >= 2 writes the
\* whole escaped string and its null at the bytes 0, 1, 2, ... whatever the
\* size of the buffer.
Escape_CountStuck ==
  Escaping =>
    /\ esc.written <= 1
    /\ Escaped => esc.result = 1
    /\ (Escaped /\ esc.szout >= 2) =>
         /\ Len(esc.writes) = Len(EscapedForm(esc.in)) + 1
         /\ \A j \in 1..Len(esc.writes) : esc.writes[j] = j - 1

\* Called from write_str_item with a buffer that malloc provided, escape
\* stays inside the 2 * len + 1 bytes of the buffer, which then holds the
\* escaped string.
Escape_InBufferFromItem ==
  (Escaping /\ esc.caller = "write_str_item" /\ ~esc.null) =>
    /\ \A j \in 1..Len(esc.writes) : esc.writes[j] < esc.szout
    /\ outcome # "crashed"
    /\ outcome = "returned" => esc.printed = EscapedForm(esc.in)

Escape_WitnessOverrun ==
  /\ Escaped
  /\ esc.caller = "direct"
  /\ esc.szout = 1
  /\ esc.in = <<"a", "a">>
  /\ esc.writes = <<0, 1, 2>>
  /\ outcome = "returned"
  /\ ret = 1

Escape_WitnessItem ==
  /\ Escaped
  /\ esc.caller = "write_str_item"
  /\ esc.in = <<"a">>
  /\ esc.szout = 3
  /\ esc.writes = <<0, 1>>
  /\ esc.result = 1
  /\ outcome = "returned"


====
